---- MODULE Spec2Model ----
(***************************************************************************)
(* ContestGuard cloud relay server (src/server/server.py): the in-memory   *)
(* session registry SESSIONS and its Flask handlers, one action per route. *)
(* Every handler is a pure operator from (registry, clock, session id,     *)
(* request) to (registry, HTTP status, JSON body); the action of a route   *)
(* applies its handler to the current state and records the exchange.      *)
(***************************************************************************)
EXTENDS Integers, Sequences, FiniteSets, TLC

VARIABLES
    SESSIONS,   \* server.py:30, session_id -> session record (a dict)
    now,        \* the UTC wall clock read by now_iso, in whole seconds
    last,       \* the last request served and the response sent for it
    served,     \* number of requests served so far
    fetched,    \* history: successful get_ips calls per record since its creation
    appended,   \* history: entries appended by post_log per record since its creation
    ends,       \* history: successful end_session calls per record since its creation
    threads,    \* requests in flight on the threaded server: position and locals of each
    replaced    \* per record, the list objects s["logs"] referred to before a trim replaced them

vars == <<SESSIONS, now, last, served, fetched, appended, ends, threads, replaced>>

---------------------------------------------------------------------------
(* Bounds of the model *)

MaxRequests == 3      \* requests served in one run
MaxTime == 1          \* the clock runs over 0..MaxTime
MaxAuthRequests == 1  \* requests served in one run of SpecAuth
MaxLogRequests == 2   \* requests served in one run of SpecLog
Backlog == 1          \* SpecLog starts with LogLimit - Backlog .. LogLimit entries
MaxThreads == 2       \* requests handled concurrently in one run of SpecThreads
MaxLogThreads == 2    \* requests handled concurrently in one run of SpecLogThreads

(* Program constants *)

LogLimit == 1000      \* server.py:158-159, "Keep last 1000 log entries only"

---------------------------------------------------------------------------
(* Python values *)

None == "None"
Truthy(v) == v \notin {None, ""}
Or(a, b) == IF Truthy(a) THEN a ELSE b            \* Python's  a or b

EmptyDict == [k \in {} |-> ""]                     \* {}
Get(d, k, default) == IF k \in DOMAIN d THEN d[k] ELSE default   \* d.get(k, default)
Put(d, k, v) == (k :> v) @@ d                      \* d[k] = v
Without(d, k) == [f \in DOMAIN d \ {k} |-> d[f]]   \* {f: v for f, v in d.items() if f != k}

\* A JSON value of the request body whose Python type the code tests.
JList(items) == [type |-> "list", items |-> items]
JStr(text) == [type |-> "str", items |-> <<text>>]
isinstance_list(v) == v.type = "list"

\* Python's seq[-n:]
LastN(seq, n) == IF Len(seq) <= n THEN seq ELSE SubSeq(seq, Len(seq) - n + 1, Len(seq))

---------------------------------------------------------------------------
(* Value spaces of the generators of create_session and of the clients *)

SessionIds == {"A3F7B2C1", "0D9E8C4B"}     \* str(uuid.uuid4())[:8].upper()
Tokens == {"token-a", "token-b"}            \* secrets.token_hex(24)
Codes == {"1000", "9999"}                   \* randbelow(9000)+1000

Ip1 == "10.0.0.0/8"
Ip2 == "192.168.1.7"

\* datetime.utcnow().strftime("%Y-%m-%dT%H:%M:%SZ") at clock value t
now_iso(t) == "2026-01-01T00:00:0" \o ToString(t) \o "Z"

---------------------------------------------------------------------------
(* Requests: headers, query arguments, and a body that is absent ("none"), *)
(* a JSON object ("obj") or sent as JSON but unparsable ("bad").           *)

Request(headers, args, json, body) ==
    [headers |-> headers, args |-> args, json |-> json, body |-> body]

Opt(k, v) == IF v = "" THEN EmptyDict ELSE (k :> v)

is_json(request) == request.json # "none"
\* request.get_json(silent=True) or {}
get_json_silent(request) == IF request.json = "obj" THEN request.body ELSE EmptyDict

---------------------------------------------------------------------------
(* Responses *)

Result(S, code, body) == [S |-> S, code |-> code, body |-> body]

StatusText(code) ==
    CASE code = 400 -> "400 Bad Request"
      [] code = 403 -> "403 Forbidden"
      [] code = 404 -> "404 Not Found"

\* abort(code, description) caught by the error handlers: {"error": str(e)}
abort(S, code, description) ==
    Result(S, code, [error |-> StatusText(code) \o ": " \o description])

BadJson == "The browser (or proxy) sent a request that this server could not understand."

---------------------------------------------------------------------------
(* Helpers *)

has_session(S, session_id) == session_id \in DOMAIN S

\* a lookup that ignores the id and returns some record of the registry
get_session_any(S, session_id) == S[CHOOSE other \in DOMAIN S : TRUE]

get_session(S, session_id) == S[session_id]

compare_digest(a, b) == a = b

\* The credential require_admin compares: (header or body field) if the
\* request is JSON, else the query argument.
admin_credential(request) ==
    IF is_json(request)
    THEN Or(Get(request.headers, "X-Admin-Token", None),
            Get(request.body, "admin_token", ""))
    ELSE Get(request.args, "admin_token", "")

\* 200 when the guard passes, else the status it aborts with. request.json
\* is evaluated only when the header is empty, and raises 400 on a body
\* that does not parse.
require_admin(s, request) ==
    IF /\ request.json = "bad"
       /\ ~Truthy(Get(request.headers, "X-Admin-Token", None))
    THEN 400
    ELSE IF compare_digest(admin_credential(request), s.admin_token) THEN 200 ELSE 403

admin_abort(S, code) ==
    IF code = 400 THEN abort(S, 400, BadJson) ELSE abort(S, 403, "Invalid admin token")

session_code_credential(request) ==
    Or(Get(request.headers, "X-Session-Code", None), Get(request.args, "code", ""))

\* require_code that also refuses the students of an ended session
require_code_active(s, request) ==
    IF s.status = "ended" THEN 403
    ELSE IF compare_digest(session_code_credential(request), s.session_code) THEN 200 ELSE 403

require_code(s, request) ==
    IF compare_digest(session_code_credential(request), s.session_code) THEN 200 ELSE 403

---------------------------------------------------------------------------
(* Routes *)

health(S, t) ==
    Result(S, 200, [status |-> "ok", sessions |-> Cardinality(DOMAIN S), time |-> now_iso(t)])

create_session(S, t, request, session_id, admin_token, session_code) ==
    LET data == get_json_silent(request)
        s == [session_id    |-> session_id,
              session_code  |-> session_code,
              admin_token   |-> admin_token,
              contest_name  |-> Get(data, "contest_name", "Contest"),
              allowed_ips   |-> <<>>,
              status        |-> "active",
              created_at    |-> now_iso(t),
              ended_at      |-> None,
              logs          |-> <<>>,
              student_count |-> 0]
    IN Result(Put(S, session_id, s), 201,
              [session_id   |-> session_id,
               session_code |-> session_code,
               admin_token  |-> admin_token,
               message      |-> "Session created. Share session_id + session_code with students via QR."])

\* set_ips with the stamp written before the payload is validated
set_ips_stamp_first(S, t, session_id, request) ==
    IF ~has_session(S, session_id) THEN abort(S, 404, "Session not found") ELSE
    LET s == get_session(S, session_id)
        data == get_json_silent(request)
        auth == require_admin(s, request)
        ips == Get(data, "allowed_ips", JList(<<>>))
        stamped == Put(S, session_id, Put(s, "ips_updated", now_iso(t)))
    IN IF auth # 200 THEN admin_abort(S, auth)
       ELSE IF ~isinstance_list(ips) THEN abort(stamped, 400, "allowed_ips must be a list")
       ELSE Result(Put(S, session_id,
                       Put(Put(s, "allowed_ips", ips.items), "ips_updated", now_iso(t))),
                   200,
                   [message |-> "IPs updated", count |-> Len(ips.items), allowed_ips |-> ips.items])

\* set_ips that appends the pushed addresses to the stored list
set_ips_merging(S, t, session_id, request) ==
    IF ~has_session(S, session_id) THEN abort(S, 404, "Session not found") ELSE
    LET s == get_session(S, session_id)
        data == get_json_silent(request)
        auth == require_admin(s, request)
        ips == Get(data, "allowed_ips", JList(<<>>))
    IN IF auth # 200 THEN admin_abort(S, auth)
       ELSE IF ~isinstance_list(ips) THEN abort(S, 400, "allowed_ips must be a list")
       ELSE Result(Put(S, session_id,
                       Put(Put(s, "allowed_ips", s.allowed_ips \o ips.items),
                           "ips_updated", now_iso(t))),
                   200,
                   [message |-> "IPs updated", count |-> Len(ips.items), allowed_ips |-> ips.items])

set_ips(S, t, session_id, request) ==
    IF ~has_session(S, session_id) THEN abort(S, 404, "Session not found") ELSE
    LET s == get_session(S, session_id)
        data == get_json_silent(request)
        auth == require_admin(s, request)
        ips == Get(data, "allowed_ips", JList(<<>>))
    IN IF auth # 200 THEN admin_abort(S, auth)
       ELSE IF ~isinstance_list(ips) THEN abort(S, 400, "allowed_ips must be a list")
       ELSE Result(Put(S, session_id,
                       Put(Put(s, "allowed_ips", ips.items), "ips_updated", now_iso(t))),
                   200,
                   [message |-> "IPs updated", count |-> Len(ips.items), allowed_ips |-> ips.items])

get_ips(S, t, session_id, request) ==
    IF ~has_session(S, session_id) THEN abort(S, 404, "Session not found") ELSE
    LET s == get_session(S, session_id)
    IN IF require_code(s, request) # 200 THEN abort(S, 403, "Invalid session code")
       ELSE LET s1 == Put(s, "student_count", Get(s, "student_count", 0) + 1)
            IN Result(Put(S, session_id, s1), 200,
                   [session_id   |-> session_id,
                    contest_name |-> s1.contest_name,
                    allowed_ips  |-> s1.allowed_ips,
                    status       |-> s1.status,
                    updated_at   |-> Get(s1, "ips_updated", s1.created_at)])

\* get_status with the counter line of get_ips
get_status_counting(S, t, session_id, request) ==
    IF ~has_session(S, session_id) THEN abort(S, 404, "Session not found") ELSE
    LET s == get_session(S, session_id)
    IN IF require_code(s, request) # 200 THEN abort(S, 403, "Invalid session code")
       ELSE LET s1 == Put(s, "student_count", Get(s, "student_count", 0) + 1)
            IN Result(Put(S, session_id, s1), 200,
                      [status      |-> s1.status,
                       allowed_ips |-> s1.allowed_ips,
                       updated_at  |-> Get(s1, "ips_updated", s1.created_at)])

get_status(S, t, session_id, request) ==
    IF ~has_session(S, session_id) THEN abort(S, 404, "Session not found") ELSE
    LET s == get_session(S, session_id)
    IN IF require_code(s, request) # 200 THEN abort(S, 403, "Invalid session code")
       ELSE Result(S, 200,
                   [status      |-> s.status,
                    allowed_ips |-> s.allowed_ips,
                    updated_at  |-> Get(s, "ips_updated", s.created_at)])

\* end_session that stamps ended_at only on the first call
end_session_keep_first(S, t, session_id, request) ==
    IF ~has_session(S, session_id) THEN abort(S, 404, "Session not found") ELSE
    LET s == get_session(S, session_id)
        auth == require_admin(s, request)
        s1 == IF s.status = "ended" THEN s
              ELSE Put(Put(s, "status", "ended"), "ended_at", now_iso(t))
    IN IF auth # 200 THEN admin_abort(S, auth)
       ELSE Result(Put(S, session_id, s1), 200,
                   [message |-> "Session ended", ended_at |-> s1.ended_at])

\* end_session without the line that stamps ended_at
end_session_no_stamp(S, t, session_id, request) ==
    IF ~has_session(S, session_id) THEN abort(S, 404, "Session not found") ELSE
    LET s == get_session(S, session_id)
        auth == require_admin(s, request)
        s1 == Put(s, "status", "ended")
    IN IF auth # 200 THEN admin_abort(S, auth)
       ELSE Result(Put(S, session_id, s1), 200,
                   [message |-> "Session ended", ended_at |-> s1.ended_at])

\* end_session that also stamps ips_updated
end_session_stamping_policy(S, t, session_id, request) ==
    IF ~has_session(S, session_id) THEN abort(S, 404, "Session not found") ELSE
    LET s == get_session(S, session_id)
        auth == require_admin(s, request)
        s1 == Put(Put(Put(s, "status", "ended"), "ended_at", now_iso(t)),
                  "ips_updated", now_iso(t))
    IN IF auth # 200 THEN admin_abort(S, auth)
       ELSE Result(Put(S, session_id, s1), 200,
                   [message |-> "Session ended", ended_at |-> s1.ended_at])

end_session(S, t, session_id, request) ==
    IF ~has_session(S, session_id) THEN abort(S, 404, "Session not found") ELSE
    LET s == get_session(S, session_id)
        auth == require_admin(s, request)
        s1 == Put(Put(s, "status", "ended"), "ended_at", now_iso(t))
    IN IF auth # 200 THEN admin_abort(S, auth)
       ELSE Result(Put(S, session_id, s1), 200,
                   [message |-> "Session ended", ended_at |-> s1.ended_at])

log_entry(t, data) ==
    [timestamp  |-> now_iso(t),
     student_id |-> Get(data, "student_id", "unknown"),
     hostname   |-> Get(data, "hostname", ""),
     event      |-> Get(data, "event", ""),
     detail     |-> Get(data, "detail", "")]

\* the trim keeping the oldest entries: logs[:1000] for logs[-1000:]
append_and_trim_oldest(logs, entry) ==
    LET grown == Append(logs, entry)
    IN IF Len(grown) > LogLimit THEN SubSeq(grown, 1, LogLimit) ELSE grown

\* s["logs"].append(entry), then the trim to the last LogLimit entries
append_and_trim(logs, entry) ==
    LET grown == Append(logs, entry)
    IN IF Len(grown) > LogLimit THEN LastN(grown, LogLimit) ELSE grown

post_log(S, t, session_id, request) ==
    IF ~has_session(S, session_id) THEN abort(S, 404, "Session not found") ELSE
    LET s == get_session(S, session_id)
        data == get_json_silent(request)
        entry == log_entry(t, data)
    IN IF require_code(s, request) # 200 THEN abort(S, 403, "Invalid session code")
       ELSE Result(Put(S, session_id, Put(s, "logs", append_and_trim(s.logs, entry))),
                   200, [message |-> "Logged"])

get_logs(S, t, session_id, request) ==
    IF ~has_session(S, session_id) THEN abort(S, 404, "Session not found") ELSE
    LET s == get_session(S, session_id)
        auth == require_admin(s, request)
    IN IF auth # 200 THEN admin_abort(S, auth)
       ELSE Result(S, 200,
                   [session_id    |-> session_id,
                    contest_name  |-> s.contest_name,
                    student_count |-> s.student_count,
                    log_count     |-> Len(s.logs),
                    logs          |-> s.logs])

\* get_info without the filter on admin_token
get_info_unfiltered(S, t, session_id, request) ==
    IF ~has_session(S, session_id) THEN abort(S, 404, "Session not found") ELSE
    LET s == get_session(S, session_id)
        auth == require_admin(s, request)
    IN IF auth # 200 THEN admin_abort(S, auth)
       ELSE Result(S, 200, s)

get_info(S, t, session_id, request) ==
    IF ~has_session(S, session_id) THEN abort(S, 404, "Session not found") ELSE
    LET s == get_session(S, session_id)
        auth == require_admin(s, request)
    IN IF auth # 200 THEN admin_abort(S, auth)
       ELSE Result(S, 200, Without(s, "admin_token"))

---------------------------------------------------------------------------
(* The requests clients send *)

JsonKinds == {"none", "obj", "bad"}
Presented(secrets) == secrets \cup {""}     \* "" is a credential not sent

\* header X-Admin-Token, body field admin_token, query argument admin_token,
\* header X-Session-Code, query argument code
ClientRequest(hToken, bToken, qToken, hCode, qCode, json, fields) ==
    Request(Opt("X-Admin-Token", hToken) @@ Opt("X-Session-Code", hCode),
            Opt("admin_token", qToken) @@ Opt("code", qCode),
            json,
            IF json = "obj" THEN Opt("admin_token", bToken) @@ fields ELSE EmptyDict)

NoRequest == Request(EmptyDict, EmptyDict, "none", EmptyDict)

Payloads == { EmptyDict,
              [allowed_ips |-> JList(<<Ip1>>)],
              [allowed_ips |-> JList(<<Ip2, Ip1>>)],
              [allowed_ips |-> JStr("not-a-list")] }

LogFields == { EmptyDict,
               [student_id |-> "s-17", hostname |-> "pc-4", event |-> "blocked",
                detail |-> "example.org"] }

\* Clients of Spec send the admin token in the header of a JSON request and
\* the session code in the header.
AdminRequests ==
    { ClientRequest(h, "", "", "", "", "obj", EmptyDict) : h \in Presented(Tokens) }

SetIpsRequests ==
    { ClientRequest(x[1], "", "", "", "", "obj", x[2]) : x \in Presented(Tokens) \X Payloads }

StudentRequests ==
    { ClientRequest("", "", "", h, "", "none", EmptyDict) : h \in Presented(Codes) }

PostLogRequests ==
    { ClientRequest("", "", "", x[1], "", "obj", x[2]) : x \in Presented(Codes) \X LogFields }

CreateRequests ==
    { NoRequest, Request(EmptyDict, EmptyDict, "obj", [contest_name |-> "Quiz 3"]) }

\* Clients of SpecAuth place credentials in every combination of sources.
AdminSources ==
    { x \in Presented(Tokens) \X Presented(Tokens) \X Presented(Tokens) \X JsonKinds :
        x[2] # "" => x[4] = "obj" }

AuthAdminRequests ==
    { ClientRequest(x[1][1], x[1][2], x[1][3], x[2], "", x[1][4], EmptyDict) :
        x \in AdminSources \X {"", "1000"} }

AuthSetIpsRequests ==
    { ClientRequest(x[1][1], x[1][2], x[1][3], x[2], "", x[1][4],
                    IF x[1][4] = "obj" THEN [allowed_ips |-> JList(<<Ip1>>)] ELSE EmptyDict) :
        x \in AdminSources \X {"", "1000"} }

AuthStudentRequests ==
    { ClientRequest("", "", "", x[1], x[2], "none", EmptyDict) :
        x \in Presented(Codes) \X Presented(Codes) }

---------------------------------------------------------------------------
(* The state machine *)

Exchange(op, session_id, request, r) ==
    [op |-> op, session_id |-> session_id, request |-> request,
     code |-> r.code, body |-> r.body]

NoExchange ==
    [op |-> "none", session_id |-> "", request |-> NoRequest, code |-> 0, body |-> EmptyDict]

Init ==
    /\ SESSIONS = EmptyDict
    /\ now = 0
    /\ last = NoExchange
    /\ served = 0
    /\ fetched = EmptyDict
    /\ appended = EmptyDict
    /\ ends = EmptyDict
    /\ threads = <<>>
    /\ replaced = EmptyDict

\* The clock advances between requests.
Tick ==
    /\ now < MaxTime
    /\ now' = now + 1
    /\ UNCHANGED <<SESSIONS, last, served, fetched, appended, ends, threads, replaced>>

Health ==
    /\ LET r == health(SESSIONS, now)
       IN /\ SESSIONS' = r.S
          /\ last' = Exchange("health", "", NoRequest, r)
    /\ served' = served + 1
    /\ UNCHANGED <<now, fetched, appended, ends, threads, replaced>>

CreateSession(request, session_id, admin_token, session_code) ==
    /\ LET r == create_session(SESSIONS, now, request, session_id, admin_token, session_code)
       IN /\ SESSIONS' = r.S
          /\ last' = Exchange("create_session", session_id, request, r)
    /\ served' = served + 1
    /\ fetched' = Put(fetched, session_id, 0)
    /\ appended' = Put(appended, session_id, <<>>)
    /\ ends' = Put(ends, session_id, 0)
    /\ UNCHANGED <<now, threads, replaced>>

SetIps(session_id, request) ==
    /\ LET r == set_ips(SESSIONS, now, session_id, request)
       IN /\ SESSIONS' = r.S
          /\ last' = Exchange("set_ips", session_id, request, r)
    /\ served' = served + 1
    /\ UNCHANGED <<now, fetched, appended, ends, threads, replaced>>

GetIps(session_id, request) ==
    /\ LET r == get_ips(SESSIONS, now, session_id, request)
       IN /\ SESSIONS' = r.S
          /\ last' = Exchange("get_ips", session_id, request, r)
          /\ fetched' = IF r.code = 200
                        THEN Put(fetched, session_id, fetched[session_id] + 1)
                        ELSE fetched
    /\ served' = served + 1
    /\ UNCHANGED <<now, appended, ends, threads, replaced>>

GetStatus(session_id, request) ==
    /\ LET r == get_status(SESSIONS, now, session_id, request)
       IN /\ SESSIONS' = r.S
          /\ last' = Exchange("get_status", session_id, request, r)
    /\ served' = served + 1
    /\ UNCHANGED <<now, fetched, appended, ends, threads, replaced>>

EndSession(session_id, request) ==
    /\ LET r == end_session(SESSIONS, now, session_id, request)
       IN /\ SESSIONS' = r.S
          /\ last' = Exchange("end_session", session_id, request, r)
          /\ ends' = IF r.code = 200
                     THEN Put(ends, session_id, ends[session_id] + 1)
                     ELSE ends
    /\ served' = served + 1
    /\ UNCHANGED <<now, fetched, appended, threads, replaced>>

PostLog(session_id, request) ==
    /\ LET r == post_log(SESSIONS, now, session_id, request)
       IN /\ SESSIONS' = r.S
          /\ last' = Exchange("post_log", session_id, request, r)
          /\ appended' = IF r.code = 200
                         THEN Put(appended, session_id,
                                  Append(appended[session_id],
                                         log_entry(now, get_json_silent(request))))
                         ELSE appended
    /\ served' = served + 1
    /\ UNCHANGED <<now, fetched, ends, threads, replaced>>

GetLogs(session_id, request) ==
    /\ LET r == get_logs(SESSIONS, now, session_id, request)
       IN /\ SESSIONS' = r.S
          /\ last' = Exchange("get_logs", session_id, request, r)
    /\ served' = served + 1
    /\ UNCHANGED <<now, fetched, appended, ends, threads, replaced>>

GetInfo(session_id, request) ==
    /\ LET r == get_info(SESSIONS, now, session_id, request)
       IN /\ SESSIONS' = r.S
          /\ last' = Exchange("get_info", session_id, request, r)
    /\ served' = served + 1
    /\ UNCHANGED <<now, fetched, appended, ends, threads, replaced>>

\* Spec: every route, from the empty registry.
Next ==
    \/ Tick
    \/ served < MaxRequests /\ Health
    \/ /\ served < MaxRequests
       /\ \E session_id \in SessionIds, admin_token \in Tokens, session_code \in Codes :
            CreateSession(NoRequest, session_id, admin_token, session_code)
    \/ /\ served < MaxRequests
       /\ \E session_id \in SessionIds, request \in SetIpsRequests : SetIps(session_id, request)
    \/ /\ served < MaxRequests
       /\ \E session_id \in SessionIds, request \in StudentRequests : GetIps(session_id, request)
    \/ /\ served < MaxRequests
       /\ \E session_id \in SessionIds, request \in StudentRequests : GetStatus(session_id, request)
    \/ /\ served < MaxRequests
       /\ \E session_id \in SessionIds, request \in AdminRequests : EndSession(session_id, request)
    \/ /\ served < MaxRequests
       /\ \E session_id \in SessionIds, request \in PostLogRequests : PostLog(session_id, request)
    \/ /\ served < MaxRequests
       /\ \E session_id \in SessionIds, request \in AdminRequests : GetLogs(session_id, request)
    \/ /\ served < MaxRequests
       /\ \E session_id \in SessionIds, request \in AdminRequests : GetInfo(session_id, request)

Spec == Init /\ [][Next]_vars

\* SpecAuth: one session just created, and requests that place credentials
\* in every combination of sources.
InitAuth ==
    /\ \E session_id \in SessionIds, admin_token \in Tokens, session_code \in Codes :
            SESSIONS = create_session(EmptyDict, 0, NoRequest, session_id,
                                      admin_token, session_code).S
    /\ now = 0
    /\ last = NoExchange
    /\ served = 0
    /\ fetched = [session_id \in DOMAIN SESSIONS |-> 0]
    /\ appended = [session_id \in DOMAIN SESSIONS |-> <<>>]
    /\ ends = [session_id \in DOMAIN SESSIONS |-> 0]
    /\ threads = <<>>
    /\ replaced = EmptyDict

NextAuth ==
    \/ /\ served < MaxAuthRequests
       /\ \E session_id \in SessionIds, request \in AuthSetIpsRequests : SetIps(session_id, request)
    \/ /\ served < MaxAuthRequests
       /\ \E session_id \in SessionIds, request \in AuthStudentRequests : GetIps(session_id, request)
    \/ /\ served < MaxAuthRequests
       /\ \E session_id \in SessionIds, request \in AuthStudentRequests : GetStatus(session_id, request)
    \/ /\ served < MaxAuthRequests
       /\ \E session_id \in SessionIds, request \in AuthAdminRequests : EndSession(session_id, request)
    \/ /\ served < MaxAuthRequests
       /\ \E session_id \in SessionIds, request \in AuthStudentRequests : PostLog(session_id, request)
    \/ /\ served < MaxAuthRequests
       /\ \E session_id \in SessionIds, request \in AuthAdminRequests : GetLogs(session_id, request)
    \/ /\ served < MaxAuthRequests
       /\ \E session_id \in SessionIds, request \in AuthAdminRequests : GetInfo(session_id, request)

SpecAuth == InitAuth /\ [][NextAuth]_vars

\* SpecLog: one session whose log already holds LogLimit - Backlog .. LogLimit
\* entries, appended by alternating clients within the
\* second the session was created in.
PrefillEntry(i) ==
    log_entry(0, IF i % 3 = 0
                 THEN [student_id |-> "s-17", hostname |-> "pc-4", event |-> "blocked",
                       detail |-> "example.org"]
                 ELSE EmptyDict)

Prefilled(s, n) == Put(s, "logs", [i \in 1..n |-> PrefillEntry(i)])

InitLog ==
    /\ \E request \in CreateRequests, session_id \in SessionIds,
          admin_token \in Tokens, session_code \in Codes,
          n \in (LogLimit - Backlog)..LogLimit :
         LET S == create_session(EmptyDict, 0, request, session_id,
                                 admin_token, session_code).S
         IN /\ SESSIONS = Put(S, session_id, Prefilled(S[session_id], n))
            /\ appended = (session_id :> [i \in 1..n |-> PrefillEntry(i)])
            /\ fetched = (session_id :> 0)
            /\ ends = (session_id :> 0)
    /\ now = 0
    /\ last = NoExchange
    /\ served = 0
    /\ threads = <<>>
    /\ replaced = EmptyDict

NextLog ==
    \/ /\ served < MaxLogRequests
       /\ \E session_id \in SessionIds, request \in PostLogRequests : PostLog(session_id, request)
    \/ /\ served < MaxLogRequests
       /\ \E session_id \in SessionIds, request \in AdminRequests : GetLogs(session_id, request)

SpecLog == InitLog /\ [][NextLog]_vars

---------------------------------------------------------------------------
(* The threaded server. app.run (server.py:203) serves every request in a  *)
(* thread of its own and the handlers take no lock, so the statements of   *)
(* two handlers interleave. A thread is at "start" before its guards, at   *)
(* "L<n>" before the read or write of line n of server.py, and "done" once *)
(* its response is sent; loc holds its local variables. Guards read only   *)
(* the request, the key of the record and its secrets, which no handler    *)
(* writes, so they are one step.                                           *)

Thread(op, session_id, request) ==
    [op |-> op, session_id |-> session_id, request |-> request,
     pc |-> "start", loc |-> EmptyDict, code |-> 0, body |-> EmptyDict]

\* What one step of a thread leaves behind: registry, replaced lists, thread.
Effect(S, R, th) == [S |-> S, replaced |-> R, th |-> th]

At(th, pc, loc) == [th EXCEPT !.pc = pc, !.loc = loc]
Answer(th, code, body) == [th EXCEPT !.pc = "done", !.code = code, !.body = body]

\* s[k] = v on the record of session_id
Store(S, session_id, k, v) == Put(S, session_id, Put(S[session_id], k, v))

\* List objects of s["logs"]: the i-th list the record referred to is
\* replaced[session_id][i] once line 159 has put another in its place; the
\* list it refers to now holds s.logs and has the next number.
ReplacedOf(R, session_id) == Get(R, session_id, <<>>)
CurrentRef(R, session_id) == Len(ReplacedOf(R, session_id)) + 1
Deref(S, R, session_id, ref) ==
    IF ref = CurrentRef(R, session_id) THEN S[session_id].logs
    ELSE ReplacedOf(R, session_id)[ref]

\* Insertion order of the keys of a record (create_session, then set_ips).
KeyOrder == <<"session_id", "session_code", "admin_token", "contest_name", "allowed_ips",
              "status", "created_at", "ended_at", "logs", "student_count", "ips_updated">>
Present(k, s) == k \in DOMAIN s
KeysOf(s) == SelectSeq(KeyOrder, LAMBDA k : Present(k, s))

\* An exception no error handler catches: the server answers 500.
InternalError == [html |-> "500 Internal Server Error"]

set_ips_step(S, R, t, th) ==
    LET session_id == th.session_id
    IN CASE th.pc = "start" ->
              LET r == set_ips(S, t, session_id, th.request)
              IN IF r.code # 200 THEN Effect(S, R, Answer(th, r.code, r.body))
                 ELSE Effect(S, R, At(th, "L100", [ips |-> r.body.allowed_ips]))
         [] th.pc = "L100" ->
              Effect(Store(S, session_id, "allowed_ips", th.loc.ips), R, At(th, "L101", th.loc))
         [] th.pc = "L101" ->
              Effect(Store(S, session_id, "ips_updated", now_iso(t)), R,
                     Answer(th, 200, [message |-> "IPs updated", count |-> Len(th.loc.ips),
                                      allowed_ips |-> th.loc.ips]))

get_ips_step(S, R, t, th) ==
    LET session_id == th.session_id
        s == S[session_id]
    IN CASE th.pc = "start" ->
              LET r == get_ips(S, t, session_id, th.request)
              IN IF r.code # 200 THEN Effect(S, R, Answer(th, r.code, r.body))
                 ELSE Effect(S, R, At(th, "L110", EmptyDict))
         [] th.pc = "L110" ->
              Effect(S, R, At(th, "L110store", [count |-> Get(s, "student_count", 0)]))
         [] th.pc = "L110store" ->
              Effect(Store(S, session_id, "student_count", th.loc.count + 1), R,
                     At(th, "L114", th.loc))
         [] th.pc = "L114" ->
              Effect(S, R, At(th, "L115", Put(Put(th.loc, "contest_name", s.contest_name),
                                              "allowed_ips", s.allowed_ips)))
         [] th.pc = "L115" ->
              Effect(S, R, At(th, "L116", Put(th.loc, "status", s.status)))
         [] th.pc = "L116" ->
              Effect(S, R, Answer(th, 200,
                                  [session_id   |-> session_id,
                                   contest_name |-> th.loc.contest_name,
                                   allowed_ips  |-> th.loc.allowed_ips,
                                   status       |-> th.loc.status,
                                   updated_at   |-> Get(s, "ips_updated", s.created_at)]))

get_status_step(S, R, t, th) ==
    LET session_id == th.session_id
        s == S[session_id]
    IN CASE th.pc = "start" ->
              LET r == get_status(S, t, session_id, th.request)
              IN IF r.code # 200 THEN Effect(S, R, Answer(th, r.code, r.body))
                 ELSE Effect(S, R, At(th, "L126", EmptyDict))
         [] th.pc = "L126" ->
              Effect(S, R, At(th, "L127", [status |-> s.status]))
         [] th.pc = "L127" ->
              Effect(S, R, At(th, "L128", Put(th.loc, "allowed_ips", s.allowed_ips)))
         [] th.pc = "L128" ->
              Effect(S, R, Answer(th, 200,
                                  [status      |-> th.loc.status,
                                   allowed_ips |-> th.loc.allowed_ips,
                                   updated_at  |-> Get(s, "ips_updated", s.created_at)]))

end_session_step(S, R, t, th) ==
    LET session_id == th.session_id
    IN CASE th.pc = "start" ->
              LET r == end_session(S, t, session_id, th.request)
              IN IF r.code # 200 THEN Effect(S, R, Answer(th, r.code, r.body))
                 ELSE Effect(S, R, At(th, "L137", EmptyDict))
         [] th.pc = "L137" ->
              Effect(Store(S, session_id, "status", "ended"), R, At(th, "L138", th.loc))
         [] th.pc = "L138" ->
              Effect(Store(S, session_id, "ended_at", now_iso(t)), R, At(th, "L139", th.loc))
         [] th.pc = "L139" ->
              Effect(S, R, Answer(th, 200, [message |-> "Session ended",
                                            ended_at |-> S[session_id].ended_at]))

\* Line 156 loads the list s["logs"] refers to and then appends to that
\* list; line 158 loads it again for len; line 159 loads it, slices a new
\* list off it and then stores the new list in the record.
post_log_step(S, R, t, th) ==
    LET session_id == th.session_id
        s == S[session_id]
    IN CASE th.pc = "start" ->
              LET r == post_log(S, t, session_id, th.request)
              IN IF r.code # 200 THEN Effect(S, R, Answer(th, r.code, r.body))
                 ELSE Effect(S, R, At(th, "L156",
                                      [entry |-> log_entry(t, get_json_silent(th.request))]))
         [] th.pc = "L156" ->
              Effect(S, R, At(th, "L156append", Put(th.loc, "ref", CurrentRef(R, session_id))))
         [] th.pc = "L156append" ->
              IF th.loc.ref = CurrentRef(R, session_id)
              THEN Effect(Store(S, session_id, "logs", Append(s.logs, th.loc.entry)), R,
                          At(th, "L158", th.loc))
              ELSE Effect(S,
                          Put(R, session_id,
                              [ReplacedOf(R, session_id) EXCEPT ![th.loc.ref] =
                                   Append(@, th.loc.entry)]),
                          At(th, "L158", th.loc))
         [] th.pc = "L158" ->
              IF Len(s.logs) > LogLimit
              THEN Effect(S, R, At(th, "L159", th.loc))
              ELSE Effect(S, R, Answer(th, 200, [message |-> "Logged"]))
         [] th.pc = "L159" ->
              Effect(S, R, At(th, "L159store", Put(th.loc, "kept", LastN(s.logs, LogLimit))))
         [] th.pc = "L159store" ->
              Effect(Store(S, session_id, "logs", th.loc.kept),
                     Put(R, session_id, Append(ReplacedOf(R, session_id), s.logs)),
                     Answer(th, 200, [message |-> "Logged"]))

\* The response holds the list s["logs"] referred to at line 174; jsonify
\* serialises what that list holds when the response is built.
get_logs_step(S, R, t, th) ==
    LET session_id == th.session_id
        s == S[session_id]
    IN CASE th.pc = "start" ->
              LET r == get_logs(S, t, session_id, th.request)
              IN IF r.code # 200 THEN Effect(S, R, Answer(th, r.code, r.body))
                 ELSE Effect(S, R, At(th, "L172", EmptyDict))
         [] th.pc = "L172" ->
              Effect(S, R, At(th, "L173", [contest_name |-> s.contest_name,
                                           student_count |-> s.student_count]))
         [] th.pc = "L173" ->
              Effect(S, R, At(th, "L174", Put(th.loc, "log_count", Len(s.logs))))
         [] th.pc = "L174" ->
              Effect(S, R, At(th, "jsonify", Put(th.loc, "ref", CurrentRef(R, session_id))))
         [] th.pc = "jsonify" ->
              Effect(S, R, Answer(th, 200,
                                  [session_id    |-> session_id,
                                   contest_name  |-> th.loc.contest_name,
                                   student_count |-> th.loc.student_count,
                                   log_count     |-> th.loc.log_count,
                                   logs          |-> Deref(S, R, session_id, th.loc.ref)]))

\* Line 183 iterates s.items(): every next() first compares the size of the
\* dict with its size when the iteration began and raises RuntimeError if
\* it changed, then yields the next key in insertion order with its value.
get_info_step(S, R, t, th) ==
    LET session_id == th.session_id
        s == S[session_id]
    IN CASE th.pc = "start" ->
              LET r == get_info(S, t, session_id, th.request)
              IN IF r.code # 200 THEN Effect(S, R, Answer(th, r.code, r.body))
                 ELSE Effect(S, R, At(th, "L183",
                                      [used |-> Cardinality(DOMAIN s), i |-> 1, out |-> EmptyDict]))
         [] th.pc = "L183" ->
              IF Cardinality(DOMAIN s) # th.loc.used
              THEN Effect(S, R, Answer(th, 500, InternalError))
              ELSE IF th.loc.i > Len(KeysOf(s))
              THEN Effect(S, R, At(th, "jsonify", th.loc))
              ELSE LET k == KeysOf(s)[th.loc.i]
                       v == IF k = "logs" THEN CurrentRef(R, session_id) ELSE s[k]
                   IN Effect(S, R, At(th, "L183",
                                      [th.loc EXCEPT !.i = @ + 1,
                                                     !.out = IF k # "admin_token"
                                                             THEN Put(@, k, v) ELSE @]))
         [] th.pc = "jsonify" ->
              Effect(S, R, Answer(th, 200,
                                  [th.loc.out EXCEPT !["logs"] = Deref(S, R, session_id, @)]))

\* A request arrives and a thread starts handling it.
Accept(op, session_id, request) ==
    /\ threads' = Append(threads, Thread(op, session_id, request))
    /\ UNCHANGED <<SESSIONS, now, last, served, fetched, appended, ends, replaced>>

\* Thread i runs its next step; a thread that answers has served its request.
Run(i, op, e) ==
    LET th == threads[i]
        answered == e.th.pc = "done"
        session_id == th.session_id
    IN /\ th.op = op
       /\ th.pc # "done"
       /\ SESSIONS' = e.S
       /\ replaced' = e.replaced
       /\ threads' = [threads EXCEPT ![i] = e.th]
       /\ last' = IF answered THEN Exchange(op, session_id, th.request, e.th) ELSE last
       /\ served' = IF answered THEN served + 1 ELSE served
       /\ fetched' = IF answered /\ op = "get_ips" /\ e.th.code = 200
                     THEN Put(fetched, session_id, fetched[session_id] + 1) ELSE fetched
       /\ ends' = IF answered /\ op = "end_session" /\ e.th.code = 200
                  THEN Put(ends, session_id, ends[session_id] + 1) ELSE ends
       /\ appended' = IF op = "post_log" /\ th.pc = "L156append"
                      THEN Put(appended, session_id, Append(appended[session_id], th.loc.entry))
                      ELSE appended
       /\ UNCHANGED now

RunSetIps(i) == Run(i, "set_ips", set_ips_step(SESSIONS, replaced, now, threads[i]))
RunGetIps(i) == Run(i, "get_ips", get_ips_step(SESSIONS, replaced, now, threads[i]))
RunGetStatus(i) == Run(i, "get_status", get_status_step(SESSIONS, replaced, now, threads[i]))
RunEndSession(i) == Run(i, "end_session", end_session_step(SESSIONS, replaced, now, threads[i]))
RunPostLog(i) == Run(i, "post_log", post_log_step(SESSIONS, replaced, now, threads[i]))
RunGetLogs(i) == Run(i, "get_logs", get_logs_step(SESSIONS, replaced, now, threads[i]))
RunGetInfo(i) == Run(i, "get_info", get_info_step(SESSIONS, replaced, now, threads[i]))

\* SpecThreads: concurrent requests on the fields of one session, a second
\* after it was created.
RecordCalls ==
    ({"set_ips"} \X SetIpsRequests)
      \cup ({"end_session", "get_info"} \X AdminRequests)
      \cup ({"get_ips", "get_status"} \X StudentRequests)

InitThreads ==
    /\ SESSIONS = create_session(EmptyDict, 0, NoRequest, "A3F7B2C1", "token-a", "1000").S
    /\ now = 1
    /\ last = NoExchange
    /\ served = 0
    /\ fetched = [session_id \in DOMAIN SESSIONS |-> 0]
    /\ appended = [session_id \in DOMAIN SESSIONS |-> <<>>]
    /\ ends = [session_id \in DOMAIN SESSIONS |-> 0]
    /\ threads = <<>>
    /\ replaced = EmptyDict

NextThreads ==
    \/ /\ Len(threads) < MaxThreads
       /\ \E session_id \in SessionIds, call \in RecordCalls : Accept(call[1], session_id, call[2])
    \/ \E i \in DOMAIN threads : RunSetIps(i)
    \/ \E i \in DOMAIN threads : RunGetIps(i)
    \/ \E i \in DOMAIN threads : RunGetStatus(i)
    \/ \E i \in DOMAIN threads : RunEndSession(i)
    \/ \E i \in DOMAIN threads : RunGetInfo(i)

SpecThreads == InitThreads /\ [][NextThreads]_vars

\* SpecLogThreads: concurrent post_log, get_logs and get_info requests on one session
\* whose log holds LogLimit - Backlog .. LogLimit entries.
ThreadLogRequests ==
    { ClientRequest("", "", "", x[1], "", "obj", [student_id |-> x[2], event |-> "blocked"]) :
        x \in Presented(Codes) \X {"s-21", "s-22"} }

LogCalls ==
    ({"post_log"} \X ThreadLogRequests) \cup ({"get_logs", "get_info"} \X AdminRequests)

InitLogThreads ==
    /\ \E n \in (LogLimit - Backlog)..LogLimit :
         LET S == create_session(EmptyDict, 0, NoRequest, "A3F7B2C1", "token-a", "1000").S
         IN /\ SESSIONS = Put(S, "A3F7B2C1", Prefilled(S["A3F7B2C1"], n))
            /\ appended = ("A3F7B2C1" :> [i \in 1..n |-> PrefillEntry(i)])
    /\ now = 1
    /\ last = NoExchange
    /\ served = 0
    /\ fetched = [session_id \in DOMAIN SESSIONS |-> 0]
    /\ ends = [session_id \in DOMAIN SESSIONS |-> 0]
    /\ threads = <<>>
    /\ replaced = EmptyDict

NextLogThreads ==
    \/ /\ Len(threads) < MaxLogThreads
       /\ \E session_id \in SessionIds, call \in LogCalls : Accept(call[1], session_id, call[2])
    \/ \E i \in DOMAIN threads : RunPostLog(i)
    \/ \E i \in DOMAIN threads : RunGetLogs(i)
    \/ \E i \in DOMAIN threads : RunGetInfo(i)

SpecLogThreads == InitLogThreads /\ [][NextLogThreads]_vars

---------------------------------------------------------------------------
(* Properties *)

AdminOps == {"set_ips", "end_session", "get_logs", "get_info"}
StudentOps == {"get_ips", "get_status", "post_log"}

\* The last step served a request (Tick serves none).
Served == served' = served + 1

\* C1: once a session's status is "ended" it is "ended" in every later
\* state, whatever request follows.
C1_StatusStaysEnded ==
    [][\A session_id \in DOMAIN SESSIONS :
         SESSIONS[session_id].status = "ended"
           => /\ session_id \in DOMAIN SESSIONS'
              /\ SESSIONS'[session_id].status = "ended"]_vars

\* The strings a response body carries: its scalar fields, the addresses of
\* allowed_ips and the fields of the log entries.
StringKeys == {"error", "message", "status", "time", "session_id", "session_code",
               "contest_name", "created_at", "ended_at", "ips_updated", "updated_at"}

StringsOf(body) ==
    { body[k] : k \in DOMAIN body \cap StringKeys }
      \cup (IF "allowed_ips" \in DOMAIN body
            THEN { body.allowed_ips[i] : i \in DOMAIN body.allowed_ips } ELSE {})
      \cup (IF "logs" \in DOMAIN body
            THEN UNION { { body.logs[i][f] : f \in DOMAIN body.logs[i] } :
                           i \in DOMAIN body.logs }
            ELSE {})

\* C2: no response other than the one of create_session has a field
\* admin_token or carries an admin token as a value (clients never send a
\* token as contest name, address or log text); the response of
\* create_session carries the token of the record it made; and a successful
\* get_info returns every field of the record but admin_token.
C2_TokenSecrecy ==
    /\ last.op \notin {"none", "create_session"}
         => /\ "admin_token" \notin DOMAIN last.body
            /\ StringsOf(last.body) \cap Tokens = {}
    /\ last.op = "create_session"
         => last.body.admin_token = SESSIONS[last.session_id].admin_token
    /\ (last.op = "get_info" /\ last.code = 200)
         => LET s == SESSIONS[last.session_id]
            IN /\ DOMAIN last.body = DOMAIN s \ {"admin_token"}
               /\ \A k \in DOMAIN last.body : last.body[k] = s[k]

\* C2 witness: get_info has answered for a session whose policy was pushed.
C2_Witness ==
    /\ last.op = "get_info"
    /\ last.code = 200
    /\ "ips_updated" \in DOMAIN last.body

\* The admin credentials a request carries, per source.
HeaderToken(request) == Get(request.headers, "X-Admin-Token", "")
BodyToken(request) == Get(request.body, "admin_token", "")
QueryToken(request) == Get(request.args, "admin_token", "")
CarriedTokens(request) ==
    {HeaderToken(request), BodyToken(request), QueryToken(request)} \ {""}
CarriedCodes(request) ==
    {Get(request.headers, "X-Session-Code", ""), Get(request.args, "code", "")} \ {""}

\* The first non-empty of header, body field, query argument.
FirstToken(request) ==
    IF HeaderToken(request) # "" THEN HeaderToken(request)
    ELSE IF BodyToken(request) # "" THEN BodyToken(request)
    ELSE QueryToken(request)

\* The last exchange addressed an existing session.
OnSession == last.session_id \in DOMAIN SESSIONS

\* C3: on an existing session an admin operation succeeds only if the
\* request carries the record's admin_token, a student operation only if it
\* carries the record's session_code; a request with the correct code whose
\* body parses and that carries no or only wrong admin tokens is Forbidden
\* on admin operations; and a request whose only admin credential is the
\* correct token succeeds on them, whatever session code it also carries.
C3_AuthCorrectness ==
    OnSession =>
      LET s == SESSIONS[last.session_id]
          request == last.request
      IN /\ (last.op \in AdminOps /\ last.code = 200)
              => s.admin_token \in CarriedTokens(request)
         /\ (last.op \in StudentOps /\ last.code = 200)
              => s.session_code \in CarriedCodes(request)
         /\ (/\ last.op \in AdminOps
             /\ request.json # "bad"
             /\ s.session_code \in CarriedCodes(request)
             /\ s.admin_token \notin CarriedTokens(request))
              => last.code = 403
         /\ (last.op \in AdminOps /\ CarriedTokens(request) = {s.admin_token})
              => last.code = 200

C5_LogWindow ==
    /\ \A session_id \in DOMAIN SESSIONS :
         LET all == appended[session_id]
             n == Len(all)
             kept == IF n < LogLimit THEN n ELSE LogLimit
             logs == SESSIONS[session_id].logs
         IN /\ Len(logs) = kept
            /\ \A i \in 1..kept : logs[i] = all[n - kept + i]
    /\ (last.op = "get_logs" /\ last.code = 200)
         => /\ last.body.logs = SESSIONS[last.session_id].logs
            /\ last.body.log_count = Len(SESSIONS[last.session_id].logs)

\* C5 witness: get_logs has answered for a session that received more than
\* 1000 entries.
C5_Witness ==
    /\ last.op = "get_logs"
    /\ last.code = 200
    /\ Len(appended[last.session_id]) > LogLimit
    /\ last.body.log_count = LogLimit

\* C6: a session's student_count is the number of successful get_ips calls
\* on it since its creation; get_status, failed get_ips calls and all other
\* requests do not count.
C6_CounterSemantics ==
    \A session_id \in DOMAIN SESSIONS :
        SESSIONS[session_id].student_count = fetched[session_id]

\* C6 witness: get_status has answered for a session whose policy was
\* fetched once.
C6_Witness ==
    /\ last.op = "get_status"
    /\ last.code = 200
    /\ fetched[last.session_id] = 1
    /\ SESSIONS[last.session_id].student_count = 1

\* The payload of a set_ips request is not a list.
NotAList(request) ==
    /\ request.json = "obj"
    /\ "allowed_ips" \in DOMAIN request.body
    /\ request.body.allowed_ips.type # "list"

\* C7: a set_ips request that passes the admin guard and whose allowed_ips
\* is not a list is answered 400 and leaves the registry as it was, so
\* get_status answers afterwards what it answered before.
C7_RejectedPushChangesNothing ==
    [][(/\ Served
        /\ last'.op = "set_ips"
        /\ last'.session_id \in DOMAIN SESSIONS
        /\ require_admin(SESSIONS[last'.session_id], last'.request) = 200
        /\ NotAList(last'.request))
         => /\ last'.code = 400
            /\ last'.body = [error |-> "400 Bad Request: allowed_ips must be a list"]
            /\ SESSIONS' = SESSIONS
            /\ \A request \in StudentRequests :
                 get_status(SESSIONS', now', last'.session_id, request).body
                   = get_status(SESSIONS, now, last'.session_id, request).body]_vars

\* C7 witness: a push of "not-a-list" was rejected on a session whose
\* policy had been pushed before.
C7_Witness ==
    /\ last.op = "set_ips"
    /\ last.code = 400
    /\ NotAList(last.request)
    /\ OnSession
    /\ "ips_updated" \in DOMAIN SESSIONS[last.session_id]
    /\ SESSIONS[last.session_id].allowed_ips # <<>>

\* The step serves an end_session request that addresses an existing
\* session and passes the admin guard.
AuthorizedEnd ==
    /\ Served
    /\ last'.op = "end_session"
    /\ last'.session_id \in DOMAIN SESSIONS
    /\ require_admin(SESSIONS[last'.session_id], last'.request) = 200

\* C8: an authorized end_session on a session that is already "ended"
\* succeeds, reports the ended_at of the first end_session and leaves the
\* record's ended_at as it was.
C8_OriginalEndedAtKept ==
    [][(AuthorizedEnd /\ SESSIONS[last'.session_id].status = "ended")
         => /\ last'.code = 200
            /\ last'.body.ended_at = SESSIONS[last'.session_id].ended_at
            /\ SESSIONS'[last'.session_id].ended_at = SESSIONS[last'.session_id].ended_at]_vars

\* C8 amended: an authorized end_session on a session that is already
\* "ended" succeeds, keeps the status "ended", overwrites the record's
\* ended_at with the time of this call and reports that time, so the
\* earlier ended_at is lost whenever the clock has moved since.
C8_EndedAtRestamped ==
    [][(AuthorizedEnd /\ SESSIONS[last'.session_id].status = "ended")
         => LET before == SESSIONS[last'.session_id]
                after == SESSIONS'[last'.session_id]
            IN /\ last'.code = 200
               /\ after.status = "ended"
               /\ after.ended_at = now_iso(now)
               /\ last'.body.ended_at = now_iso(now)
               /\ before.ended_at # now_iso(now) => after.ended_at # before.ended_at]_vars

\* C8 witness: a second end_session has succeeded on a session, a second
\* after the session was created.
C8_Witness ==
    /\ last.op = "end_session"
    /\ last.code = 200
    /\ ends[last.session_id] = 2
    /\ SESSIONS[last.session_id].ended_at # SESSIONS[last.session_id].created_at

\* C9: an authorized end_session on an existing session succeeds whether
\* the status is "active" or "ended"; afterwards the status is "ended",
\* ended_at is the time of the call and not null, and the response reports
\* the stored ended_at.
C9_EndStampsCallTime ==
    [][AuthorizedEnd
         => LET after == SESSIONS'[last'.session_id]
            IN /\ last'.code = 200
               /\ after.status = "ended"
               /\ after.ended_at # None
               /\ after.ended_at = now_iso(now)
               /\ last'.body.ended_at = after.ended_at]_vars

\* C9 witness: the first end_session has succeeded on an active session.
C9_Witness ==
    /\ last.op = "end_session"
    /\ last.code = 200
    /\ ends[last.session_id] = 1
    /\ SESSIONS[last.session_id].status = "ended"

\* The response of a session route on registry S.
Respond(op, S, t, session_id, request) ==
    CASE op = "set_ips" -> set_ips(S, t, session_id, request)
      [] op = "get_ips" -> get_ips(S, t, session_id, request)
      [] op = "get_status" -> get_status(S, t, session_id, request)
      [] op = "end_session" -> end_session(S, t, session_id, request)
      [] op = "post_log" -> post_log(S, t, session_id, request)
      [] op = "get_logs" -> get_logs(S, t, session_id, request)
      [] op = "get_info" -> get_info(S, t, session_id, request)

Reply(r) == <<r.code, r.body>>

\* The registry without the records of the other sessions.
Only(S, session_id) == [x \in DOMAIN S \cap {session_id} |-> S[x]]

\* C10: a request addressed to session A, successful or not, leaves the
\* record of every other session as it was and adds or removes no record,
\* and its response is the one the server gives when the registry holds no
\* other session: nothing of another record reaches it.
C10_Isolation ==
    [][(Served /\ last'.op \in AdminOps \cup StudentOps)
         => LET a == last'.session_id
            IN /\ DOMAIN SESSIONS' = DOMAIN SESSIONS
               /\ \A b \in DOMAIN SESSIONS \ {a} : SESSIONS'[b] = SESSIONS[b]
               /\ <<last'.code, last'.body>>
                    = Reply(Respond(last'.op, Only(SESSIONS, a), now, a, last'.request))]_vars

\* C10 witness: a policy fetch has succeeded on one of two sessions that
\* differ in token and code.
C10_Witness ==
    /\ last.op = "get_ips"
    /\ last.code = 200
    /\ \E b \in DOMAIN SESSIONS :
         /\ b # last.session_id
         /\ SESSIONS[b].admin_token # SESSIONS[last.session_id].admin_token
         /\ SESSIONS[b].session_code # SESSIONS[last.session_id].session_code
         /\ SESSIONS[b].student_count = 0

\* C11: a create_session call stores its record under an identifier that
\* was not in the registry, leaves every existing record as it was and
\* makes the registry one record larger; no request removes a record, and
\* health reports the number of records.
C11_NeverReissued ==
    [][/\ (Served /\ last'.op = "create_session")
            => /\ last'.session_id \notin DOMAIN SESSIONS
               /\ \A session_id \in DOMAIN SESSIONS :
                    /\ session_id \in DOMAIN SESSIONS'
                    /\ SESSIONS'[session_id] = SESSIONS[session_id]
               /\ Cardinality(DOMAIN SESSIONS') = Cardinality(DOMAIN SESSIONS) + 1
       /\ DOMAIN SESSIONS \subseteq DOMAIN SESSIONS'
       /\ (Served /\ last'.op = "health")
            => last'.body.sessions = Cardinality(DOMAIN SESSIONS')]_vars

\* The record with the other status.
OtherStatus(s) == Put(s, "status", IF s.status = "ended" THEN "active" ELSE "ended")

\* C12: on a session whose record is "ended" (only end_session writes that
\* status), get_status and get_ips with the record's session_code succeed
\* and report status "ended" with the stored allowed_ips; and for every
\* session route the status code answered is the one answered had the
\* record the other status.
C12_EndedSessionsServe ==
    [][(Served /\ last'.op \in AdminOps \cup StudentOps /\ last'.session_id \in DOMAIN SESSIONS)
         => LET session_id == last'.session_id
                s == SESSIONS[session_id]
            IN /\ (/\ last'.op \in {"get_status", "get_ips"}
                   /\ s.status = "ended"
                   /\ CarriedCodes(last'.request) = {s.session_code})
                    => /\ last'.code = 200
                       /\ last'.body.status = "ended"
                       /\ last'.body.allowed_ips = s.allowed_ips
               /\ last'.code
                    = Respond(last'.op, Put(SESSIONS, session_id, OtherStatus(s)),
                              now, session_id, last'.request).code]_vars

\* C12 witness: a policy fetch has succeeded on an ended session.
C12_Witness ==
    /\ last.op = "get_ips"
    /\ last.code = 200
    /\ last.body.status = "ended"
    /\ ends[last.session_id] = 1

\* The request of a student who presents session code c in the header.
CodeRequest(c) == Request("X-Session-Code" :> c, EmptyDict, "none", EmptyDict)

\* The list a set_ips request pushes: the body's allowed_ips, or the empty
\* list when the body has no such field.
Pushed(request) ==
    IF request.json = "obj" /\ "allowed_ips" \in DOMAIN request.body
    THEN request.body.allowed_ips.items
    ELSE <<>>

\* C19: after a successful set_ips pushing L the record's allowed_ips is L,
\* ips_updated is the time of the call, the response reports L and its
\* length, no other field of the record has changed, and get_ips and
\* get_status answer L; a body without allowed_ips pushes the empty list.
C19_WholesaleReplacement ==
    [][(Served /\ last'.op = "set_ips" /\ last'.code = 200)
         => LET session_id == last'.session_id
                L == Pushed(last'.request)
                before == SESSIONS[session_id]
                after == SESSIONS'[session_id]
                student == CodeRequest(after.session_code)
            IN /\ after.allowed_ips = L
               /\ after.ips_updated = now_iso(now)
               /\ last'.body.count = Len(L)
               /\ last'.body.allowed_ips = L
               /\ \A k \in DOMAIN before \ {"allowed_ips", "ips_updated"} : after[k] = before[k]
               /\ get_status(SESSIONS', now', session_id, student).body.allowed_ips = L
               /\ get_ips(SESSIONS', now', session_id, student).body.allowed_ips = L]_vars

\* C19 witness: a push without allowed_ips has succeeded and the stored
\* list is empty.
C19_Witness ==
    /\ last.op = "set_ips"
    /\ last.code = 200
    /\ "allowed_ips" \notin DOMAIN last.request.body
    /\ last.body.count = 0
    /\ SESSIONS[last.session_id].allowed_ips = <<>>
    /\ "ips_updated" \in DOMAIN SESSIONS[last.session_id]

\* What get_status and get_ips answer to a student with the record's code.
StatusOf(S, t, session_id) ==
    get_status(S, t, session_id, CodeRequest(S[session_id].session_code)).body
PolicyOf(S, t, session_id) ==
    get_ips(S, t, session_id, CodeRequest(S[session_id].session_code)).body

\* The sessions a step can have touched: the one the request addressed, or
\* all of them when the clock moved.
Addressed ==
    IF Served THEN {last'.session_id} \cap DOMAIN SESSIONS' ELSE DOMAIN SESSIONS'

\* C20: after every request on a session, and when the clock moves, get_ips
\* and get_status answer the same allowed_ips, status and updated_at; the
\* updated_at of a record just created is its created_at, a successful
\* set_ips makes it the time of that call, and no other request
\* (end_session, post_log, get_ips, a rejected set_ips, ...) changes it.
C20_UpdatedAtTracksPush ==
    [][\A session_id \in Addressed :
         \E status \in {StatusOf(SESSIONS', now', session_id)},
            policy \in {PolicyOf(SESSIONS', now', session_id)} :
            /\ policy.allowed_ips = status.allowed_ips
            /\ policy.status = status.status
            /\ policy.updated_at = status.updated_at
            /\ status.updated_at
                 = IF Served /\ last'.op = "create_session" /\ last'.session_id = session_id
                   THEN SESSIONS'[session_id].created_at
                   ELSE IF /\ Served
                           /\ last'.op = "set_ips"
                           /\ last'.session_id = session_id
                           /\ last'.code = 200
                   THEN now_iso(now)
                   ELSE StatusOf(SESSIONS, now, session_id).updated_at]_vars

\* C20 witness: get_status has answered an updated_at later than the
\* record's created_at.
C20_Witness ==
    /\ last.op = "get_status"
    /\ last.code = 200
    /\ last.body.updated_at # SESSIONS[last.session_id].created_at
    /\ last.body.allowed_ips # <<>>

\* The request with admin token v added in one of its sources, and with
\* session code v added in one of its sources.
WithAdminToken(request, source, v) ==
    CASE source = "header" -> [request EXCEPT !.headers = Put(@, "X-Admin-Token", v)]
      [] source = "body" -> [request EXCEPT !.body = Put(@, "admin_token", v)]
      [] source = "query" -> [request EXCEPT !.args = Put(@, "admin_token", v)]

WithCode(request, source, v) ==
    CASE source = "header" -> [request EXCEPT !.headers = Put(@, "X-Session-Code", v)]
      [] source = "query" -> [request EXCEPT !.args = Put(@, "code", v)]

\* A body field can be added to a request whose body is a JSON object.
TokenSources(request) ==
    {"header", "query"} \cup (IF request.json = "obj" THEN {"body"} ELSE {})

\* C14: a request to an existing session that carries no admin token (no
\* session code) is answered 403 by every admin (student) route, and the
\* same request with a wrong token (code) added in any one source gets the
\* same status and the same body.
C14_ForbiddenUniform ==
    OnSession =>
      LET s == SESSIONS[last.session_id]
          request == last.request
      IN /\ (last.op \in AdminOps /\ CarriedTokens(request) = {})
              => /\ last.code = 403
                 /\ \A wrong \in Tokens \ {s.admin_token}, source \in TokenSources(request) :
                      Reply(Respond(last.op, SESSIONS, now, last.session_id,
                                    WithAdminToken(request, source, wrong)))
                        = <<last.code, last.body>>
         /\ (last.op \in StudentOps /\ CarriedCodes(request) = {})
              => /\ last.code = 403
                 /\ \A wrong \in Codes \ {s.session_code}, source \in {"header", "query"} :
                      Reply(Respond(last.op, SESSIONS, now, last.session_id,
                                    WithCode(request, source, wrong)))
                        = <<last.code, last.body>>

\* C18: a session route that answers 404, 403 or 400 leaves the registry
\* as it was; a request to an unknown session is answered 404 whatever it
\* carries; a request to an existing session that carries the record's
\* secret in no source is answered 403 whatever its body; and set_ips
\* answers 400 only to a request that carries the admin token.
C18_FailedRequestsChangeNothing ==
    [][(Served /\ last'.op \in AdminOps \cup StudentOps)
         => LET session_id == last'.session_id
                request == last'.request
                known == session_id \in DOMAIN SESSIONS
                secret == IF last'.op \in AdminOps
                          THEN SESSIONS[session_id].admin_token \in CarriedTokens(request)
                          ELSE SESSIONS[session_id].session_code \in CarriedCodes(request)
            IN /\ last'.code \in {400, 403, 404} => SESSIONS' = SESSIONS
               /\ ~known => last'.code = 404
               /\ (known /\ ~secret) => last'.code = 403
               /\ (known /\ last'.code = 400) => (last'.op = "set_ips" /\ secret)]_vars

\* The set_ips threads that have passed their guards, and the lists they push.
Pushes == { i \in DOMAIN threads : threads[i].op = "set_ips" /\ "ips" \in DOMAIN threads[i].loc }
PushedLists == { threads[i].loc.ips : i \in Pushes }

\* No thread is handling a request.
Quiescent == \A i \in DOMAIN threads : threads[i].pc = "done"

\* C13: with requests interleaving on a session created a second earlier
\* with an empty list, a successful get_status or get_ips answers either
\* updated_at = created_at with the empty list, or a later updated_at with
\* a list some set_ips pushed; a successful get_info answers the same of
\* allowed_ips and ips_updated, and never status "ended" with ended_at null.
C13_AtomicReads ==
    (last.code = 200 /\ last.session_id \in DOMAIN SESSIONS)
      => LET s == SESSIONS[last.session_id]
         IN /\ last.op \in {"get_status", "get_ips"}
                 => IF last.body.updated_at = s.created_at
                    THEN last.body.allowed_ips = <<>>
                    ELSE last.body.allowed_ips \in PushedLists
            /\ last.op = "get_info"
                 => /\ IF "ips_updated" \notin DOMAIN last.body
                       THEN last.body.allowed_ips = <<>>
                       ELSE last.body.allowed_ips \in PushedLists
                    /\ last.body.status = "ended" => last.body.ended_at # None

\* C15: once all concurrent requests are answered, student_count is the
\* number of get_ips requests that were answered 200.
C15_NoLostCount ==
    Quiescent =>
      \A session_id \in DOMAIN SESSIONS :
          SESSIONS[session_id].student_count = fetched[session_id]

\* C16: in every state of every interleaving the record's logs hold at
\* most 1000 entries, and a get_logs or get_info response carries at most
\* 1000 entries and a log_count of at most 1000.
C16_LogBoundEverywhere ==
    /\ \A session_id \in DOMAIN SESSIONS : Len(SESSIONS[session_id].logs) <= LogLimit
    /\ (last.op \in {"get_logs", "get_info"} /\ last.code = 200)
         => Len(last.body.logs) <= LogLimit
    /\ (last.op = "get_logs" /\ last.code = 200) => last.body.log_count <= LogLimit

\* The post_log threads answered 200, all among the last 1000 to append.
Acknowledged == { i \in DOMAIN threads : threads[i].op = "post_log" /\ threads[i].code = 200 }

\* C17: once all concurrent requests are answered, every entry of an
\* acknowledged post_log is in the record's logs, as often as it was
\* acknowledged.
C17_NoLostEntry ==
    Quiescent =>
      \A i \in Acknowledged :
          LET session_id == threads[i].session_id
              entry == threads[i].loc.entry
              logs == SESSIONS[session_id].logs
          IN Cardinality({ k \in DOMAIN logs : logs[k] = entry })
               = Cardinality({ j \in Acknowledged :
                                 /\ threads[j].session_id = session_id
                                 /\ threads[j].loc.entry = entry })

====
